---- MODULE Spec2Model ----
(***************************************************************************)
(* Model of src/main.cpp: the search for progressive perfect squares.     *)
(*                                                                         *)
(* The program is a static initializer (the quadratic-residue table)      *)
(* followed by main: three nested loops over (a, b, c), a classifier      *)
(* call per candidate, insertion into an unordered_set, and a final       *)
(* print/accumulate phase.                                                *)
(*                                                                         *)
(* TLC's integers are 32 bits wide, so the search is run on the instance  *)
(* Bound = 100,000 that the problem statement in the source gives (lines  *)
(* 11-13); the limit on a is derived from Bound exactly as the source's   *)
(* 10'000 is derived from 10^12.                                          *)
(***************************************************************************)
EXTENDS Integers, Sequences, FiniteSets, TLC

VARIABLES
    pc,                  \* control point of the program
    i,                   \* loop counter of quadratic_residues_mod
    quadratic_residues,  \* the static bitset, as the set of set bit indices
    a, b, c,             \* loop variables of main
    cand,                \* the candidate last computed (the local n of main)
    ret,                 \* the value returned by a call of is_perfect_square
    sols,                \* the unordered_set, as the sequence of its entries
    out,                 \* the lines printed by the first output loop
    total                \* the value printed by std::accumulate

vars == <<pc, i, quadratic_residues, a, b, c, cand, ret, sols, out, total>>

----------------------------------------------------------------------------
(* Constants of the program *)

\* const size_t MODULUS = 64
MODULUS == 64

\* The exclusive upper limit on candidates (the literal of main's break test).
Bound == 100000

\* Bound of the model: a cap on the inner loop counter, which the code
\* leaves unbounded. The search never meets it (see C9).
MaxC == 400

RECURSIVE CubeRootFrom(_, _)
CubeRootFrom(k, m) == IF k * k * k >= m THEN k ELSE CubeRootFrom(k + 1, m)

\* the limit with its last digit dropped
ALimit_short == CubeRootFrom(1, Bound) \div 10

\* The exclusive limit of the outer loop: the cube root of the bound
\* (10'000 for 10^12 in the source).
ALimit == CubeRootFrom(1, Bound)

----------------------------------------------------------------------------
(* Pure functions *)

\* static_cast<i64>(sqrt(n)): the double square root is correctly rounded and
\* n < 2^53 converts exactly, so below 10^12 the truncated result is the
\* integer floor of the square root.
RECURSIVE SqrtSearch(_, _, _)
SqrtSearch(n, lo, hi) ==
    IF lo = hi THEN lo
    ELSE LET mid == (lo + hi + 1) \div 2
         IN IF mid * mid <= n THEN SqrtSearch(n, mid, hi)
                              ELSE SqrtSearch(n, lo, mid - 1)

sqrt_trunc(n) == SqrtSearch(n, 0, 46340)

\* the residue test trusted without the exact check
is_perfect_square_residue_only(n) == (n % MODULUS) \in quadratic_residues

\* bool is_perfect_square(i64 n), for n >= 0.
is_perfect_square(n) ==
    IF ~((n % MODULUS) \in quadratic_residues)
    THEN FALSE
    ELSE LET root == sqrt_trunc(n) IN root * root = n

\* a squared where the code cubes it
compute_candidate_square(x, y, z) == z*z*x*x*y + z*y*y

\* the remainder term c*b*b with one factor b missing
compute_candidate_short_r(x, y, z) == z*z*x*x*x*y + z*y

\* the result held in a 16-bit unsigned type, too narrow for Bound
compute_candidate_narrow(x, y, z) == (z*z*x*x*x*y + z*y*y) % 65536

\* i64 compute_candidate(i64 a, i64 b, i64 c). At this Bound every product
\* is far below 2^63, so the i64 arithmetic is exact; the 64-bit range is
\* followed at the source's own constants by compute_candidate_i64.
compute_candidate(x, y, z) == z*z*x*x*x*y + z*y*y

\* unordered_set::insert: a value already present is not added again.
Contains(s, n) == \E k \in DOMAIN s : s[k] = n

\* a container that keeps duplicates
sols_insert_multi(s, n) == Append(s, n)

sols_insert(s, n) == IF Contains(s, n) THEN s ELSE Append(s, n)

\* std::accumulate(sols.begin(), sols.end(), 0ll)
RECURSIVE accumulate(_)
accumulate(s) == IF s = << >> THEN 0 ELSE Head(s) + accumulate(Tail(s))

----------------------------------------------------------------------------
(* The program *)

Init ==
    /\ pc = "static_init"
    /\ i = 0
    /\ quadratic_residues = {}
    /\ a = 0 /\ b = 0 /\ c = 0 /\ cand = 0
    /\ ret = "none"
    /\ sols = << >>
    /\ out = << >>
    /\ total = 0

\* the loop stopped at the squares below the modulus
quadratic_residues_mod_small ==
    /\ pc = "static_init"
    /\ IF i * i < MODULUS
       THEN /\ quadratic_residues' = quadratic_residues \cup {(i * i) % MODULUS}
            /\ i' = i + 1
            /\ UNCHANGED <<pc, a>>
       ELSE /\ pc' = "outer"
            /\ a' = 1
            /\ UNCHANGED <<i, quadratic_residues>>
    /\ UNCHANGED <<b, c, cand, ret, sols, out, total>>

\* quadratic_residues_mod<MODULUS>(), run by the static initializer: one
\* iteration of its loop, or, when the loop is over, the return of the table,
\* after which main starts with a = 1.
quadratic_residues_mod ==
    /\ pc = "static_init"
    /\ IF i < MODULUS
       THEN /\ quadratic_residues' = quadratic_residues \cup {(i * i) % MODULUS}
            /\ i' = i + 1
            /\ UNCHANGED <<pc, a>>
       ELSE /\ pc' = "outer"
            /\ a' = 1
            /\ UNCHANGED <<i, quadratic_residues>>
    /\ UNCHANGED <<b, c, cand, ret, sols, out, total>>

\* for (i64 a = 1; a < ALimit; ++a)
OuterLoop ==
    /\ pc = "outer"
    /\ IF a < ALimit
       THEN /\ b' = 1
            /\ pc' = "middle"
       ELSE /\ pc' = "output"
            /\ b' = b
    /\ UNCHANGED <<i, quadratic_residues, a, c, cand, ret, sols, out, total>>

\* for (i64 b = 1; b < a; ++b)
MiddleLoop ==
    /\ pc = "middle"
    /\ IF b < a
       THEN /\ c' = 1
            /\ pc' = "inner"
            /\ a' = a
       ELSE /\ a' = a + 1
            /\ pc' = "outer"
            /\ c' = c
    /\ UNCHANGED <<i, quadratic_residues, b, cand, ret, sols, out, total>>

\* the loop without its c += 1
InnerLoop_no_increment ==
    /\ pc = "inner"
    /\ c <= MaxC
    /\ cand' = compute_candidate(a, b, c)
    /\ IF cand' >= Bound
       THEN /\ b' = b + 1
            /\ pc' = "middle"
            /\ UNCHANGED <<c, sols>>
       ELSE /\ sols' = IF is_perfect_square(cand') THEN sols_insert(sols, cand') ELSE sols
            /\ UNCHANGED <<b, c, pc>>
    /\ UNCHANGED <<i, quadratic_residues, a, ret, out, total>>

\* One iteration of for (i64 c = 1; ; c += 1): the candidate, the break
\* test, the classifier and the insertion.
InnerLoop ==
    /\ pc = "inner"
    /\ c <= MaxC
    /\ cand' = compute_candidate(a, b, c)
    /\ IF cand' >= Bound
       THEN /\ b' = b + 1
            /\ pc' = "middle"
            /\ UNCHANGED <<c, sols>>
       ELSE /\ sols' = IF is_perfect_square(cand') THEN sols_insert(sols, cand') ELSE sols
            /\ c' = c + 1
            /\ UNCHANGED <<b, pc>>
    /\ UNCHANGED <<i, quadratic_residues, a, ret, out, total>>

\* The output phase: the root of every entry, then the sum of the entries.
\* The iteration order of an unordered_set is unspecified; the order of the
\* sequence is one of the orders the program may print.
Output ==
    /\ pc = "output"
    /\ out' = [k \in DOMAIN sols |-> sqrt_trunc(sols[k])]
    /\ total' = accumulate(sols)
    /\ pc' = "done"
    /\ UNCHANGED <<i, quadratic_residues, a, b, c, cand, ret, sols>>

Next ==
    \/ quadratic_residues_mod
    \/ OuterLoop
    \/ MiddleLoop
    \/ InnerLoop
    \/ Output

Spec == Init /\ [][Next]_vars

\* The program is a single thread that always takes its next step.
FairSpec == Init /\ [][Next]_vars /\ WF_vars(Next)

----------------------------------------------------------------------------
(* is_perfect_square called on every non-negative n below Bound.          *)

\* The table quadratic_residues_mod<MODULUS>() returns, as a value.
quadratic_residues_value == {(j * j) % MODULUS : j \in 0..(MODULUS - 1)}

\* The table is built, and is_perfect_square is about to be called on cand.
SquareInit ==
    /\ pc = "call_is_perfect_square"
    /\ i = MODULUS
    /\ quadratic_residues = quadratic_residues_value
    /\ cand \in 0..(Bound - 1)
    /\ ret = "none"
    /\ a = 0 /\ b = 0 /\ c = 0
    /\ sols = << >>
    /\ out = << >>
    /\ total = 0

\* bool is_perfect_square(i64 n), called with n = cand.
IsPerfectSquareCall ==
    /\ pc = "call_is_perfect_square"
    /\ ret' = is_perfect_square(cand)
    /\ pc' = "returned"
    /\ UNCHANGED <<i, quadratic_residues, a, b, c, cand, sols, out, total>>

SquareNext == IsPerfectSquareCall

SquareSpec == SquareInit /\ [][SquareNext]_vars

----------------------------------------------------------------------------
(* The arithmetic of compute_candidate at the source's own constants.     *)
(*                                                                         *)
(* Values of up to 64 bits and more are sequences of base-1000 digits,    *)
(* least significant first. A multiplier is an ordinary integer below     *)
(* 2 * 10^6, so that no digit product leaves TLC's integer range.         *)

RECURSIVE WideOf(_)
WideOf(m) == IF m < 1000 THEN <<m>> ELSE <<m % 1000>> \o WideOf(m \div 1000)

RECURSIVE WideMulCarry(_, _, _)
WideMulCarry(x, m, carry) ==
    IF x = << >>
    THEN IF carry = 0 THEN << >> ELSE WideOf(carry)
    ELSE LET t == Head(x) * m + carry
         IN <<t % 1000>> \o WideMulCarry(Tail(x), m, t \div 1000)

WideMul(x, m) == WideMulCarry(x, m, 0)

RECURSIVE WideAddCarry(_, _, _)
WideAddCarry(x, y, carry) ==
    IF x = << >> /\ y = << >>
    THEN IF carry = 0 THEN << >> ELSE <<carry>>
    ELSE LET t == (IF x = << >> THEN 0 ELSE Head(x))
                  + (IF y = << >> THEN 0 ELSE Head(y)) + carry
         IN <<t % 1000>> \o WideAddCarry(IF x = << >> THEN x ELSE Tail(x),
                                         IF y = << >> THEN y ELSE Tail(y),
                                         t \div 1000)

WideAdd(x, y) == WideAddCarry(x, y, 0)

WideDigit(x, k) == IF k <= Len(x) THEN x[k] ELSE 0

WideLess(x, y) ==
    LET L == IF Len(x) > Len(y) THEN Len(x) ELSE Len(y)
    IN \E k \in 1..L :
           /\ WideDigit(x, k) < WideDigit(y, k)
           /\ \A j \in (k + 1)..L : WideDigit(x, j) = WideDigit(y, j)

\* INT32_MAX = 2,147,483,647: the range of a 32-bit int
I32Max == <<647, 483, 147, 2>>

\* using i64 = int64_t: INT64_MAX = 9,223,372,036,854,775,807
I64Max == <<807, 775, 854, 36, 372, 223, 9>>

\* The literal of main's break test, 1'000'000'000'000.
BoundFull == <<0, 0, 0, 0, 1>>

\* The literal of main's outer loop, 10'000.
ALimitFull == 10000

\* How many of the last iterations of the outer loop are followed.
WideSpan == 2

\* In between, every WideStride-th iteration of the outer loop is followed.
WideStride == 1000

\* c*c*a*a*a*b + c*b*b evaluated from left to right: every product, the
\* sum, and whether all of them are within the range of i64.
compute_candidate_i64(x, y, z) ==
    LET p1 == WideMul(WideOf(z), z)
        p2 == WideMul(p1, x)
        p3 == WideMul(p2, x)
        p4 == WideMul(p3, x)
        p5 == WideMul(p4, y)
        q1 == WideMul(WideOf(z), y)
        q2 == WideMul(q1, y)
        sum == WideAdd(p5, q2)
        steps == <<p1, p2, p3, p4, p5, q1, q2, sum>>
    IN [value |-> sum,
        in_range |-> \A k \in DOMAIN steps : ~WideLess(I64Max, steps[k])]

\* A c at or shortly before the one at which the inner loop of (x, y)
\* breaks: 10^6 / sqrt(x^3 y), with the root rounded up.
BreakEstimate(x, y) == 1000000000 \div (sqrt_trunc(x*x*x*y * 1000000) + 1)

\* main is inside an inner loop of the full-size search: at the start of one
\* of the last WideSpan iterations of the outer loop, where a and b are
\* largest; at the start of the inner loops of the smallest and the largest
\* b of every WideStride-th iteration in between; or near the break of one
\* of the first WideSpan iterations that have an inner loop, where c is
\* largest. The loop reaches a c > 1 only if the candidate of c - 1 was
\* below the bound.
WideInit ==
    /\ pc = "inner"
    /\ \/ /\ a \in (ALimitFull - WideSpan)..(ALimitFull - 1)
          /\ b \in 1..(a - 1)
          /\ c = 1
       \/ /\ a \in {k * WideStride : k \in 1..((ALimitFull - 1) \div WideStride)}
          /\ b \in (1..WideSpan) \cup ((a - WideSpan)..(a - 1))
          /\ c = 1
       \/ /\ a \in 2..(1 + WideSpan)
          /\ b \in 1..(a - 1)
          /\ c = BreakEstimate(a, b)
          /\ WideLess(compute_candidate_i64(a, b, c - 1).value, BoundFull)
    /\ cand = << >>
    /\ i = MODULUS
    /\ quadratic_residues = quadratic_residues_value
    /\ ret = "none"
    /\ sols = << >>
    /\ out = << >>
    /\ total = 0

\* One iteration of the inner loop, followed for its arithmetic and its
\* break test only: the classifier and the set are left out. A signed
\* overflow is undefined behaviour, after which nothing is known.
WideInnerLoop ==
    /\ pc = "inner"
    /\ LET r == compute_candidate_i64(a, b, c)
       IN /\ cand' = r.value
          /\ IF ~r.in_range
             THEN /\ pc' = "undefined"
                  /\ c' = c
             ELSE IF ~WideLess(r.value, BoundFull)
             THEN /\ pc' = "break"
                  /\ c' = c
             ELSE /\ pc' = "inner"
                  /\ c' = c + 1
    /\ UNCHANGED <<i, quadratic_residues, a, b, ret, sols, out, total>>

WideNext == WideInnerLoop

WideSpec == WideInit /\ [][WideNext]_vars

----------------------------------------------------------------------------
(* Oracles: the mathematical notions the claims speak of, written without *)
(* compute_candidate, is_perfect_square or the residue table.             *)

\* The roots k >= 1 with k*k < Bound (written without the product).
Roots == {j \in 1..Bound : j <= (Bound - 1) \div j}

\* The perfect squares n with 0 < n < Bound.
PerfectSquares == {k * k : k \in Roots}

\* n = d*q + r with 0 < r < d <= q and d*d = r*q, for some d <= m. With
\* 0 <= r < d, q and r are the quotient and the remainder of n by d.
ProgressiveUpTo(n, m) ==
    \E d \in 1..m :
        LET q == n \div d
            r == n % d
        IN /\ 0 < r /\ r < d /\ d <= q
           /\ d * d = r * q

\* The progressive perfect squares below Bound: d <= q gives d*d <= k*k, so
\* the divisors up to k are all there are to try.
ProgressiveSquares == {k * k : k \in {j \in Roots : ProgressiveUpTo(j * j, j)}}

\* Some z >= z0 has z^2 x^3 y + z y^2 = n (the value grows with z).
RECURSIVE TripleFrom(_, _, _, _)
TripleFrom(x, y, z, n) ==
    LET v == z*z*x*x*x*y + z*y*y
    IN IF v = n THEN TRUE
       ELSE IF v > n THEN FALSE
       ELSE TripleFrom(x, y, z + 1, n)

\* n = c^2 a^3 b + c b^2 for some positive a, b, c with b < a (then a^3 < n).
HasTriple(n) ==
    \E x \in 2..CubeRootFrom(1, n) : \E y \in 1..(x - 1) : TripleFrom(x, y, 1, n)

\* The value of the triple t = <<a, b, c>>.
TripleValue(t) == t[3]*t[3]*t[1]*t[1]*t[1]*t[2] + t[3]*t[2]*t[2]

\* The triples whose candidate is below Bound: those of the inner loop's
\* iterations that do not break. (c*c <= (Bound - 1) / (a^3 b) holds of all
\* of them, and keeps the products small.)
CandidateTriples ==
    {<<t[1], t[2], t[3]>> :
        t \in {u \in (2..(ALimit - 1)) \X (1..(ALimit - 1)) \X (1..MaxC) :
                  /\ u[2] < u[1]
                  /\ u[3] * u[3] <= (Bound - 1) \div (u[1]*u[1]*u[1]*u[2])
                  /\ TripleValue(u) < Bound}}

\* t comes before u in the order of the loops.
Before(t, u) ==
    \/ t[1] < u[1]
    \/ t[1] = u[1] /\ t[2] < u[2]
    \/ t[1] = u[1] /\ t[2] = u[2] /\ t[3] < u[3]

\* The pairs <<t, u>> of distinct triples with the same value, t before u.
RepeatedPairs ==
    {<<p[1], p[2]>> :
        p \in {q \in CandidateTriples \X CandidateTriples :
                  Before(q[1], q[2]) /\ TripleValue(q[1]) = TripleValue(q[2])}}

\* The inner loop has completed the iteration of triple t.
Visited(t) ==
    \/ pc \in {"output", "done"}
    \/ pc \in {"outer", "middle", "inner"} /\ t[1] < a
    \/ pc \in {"middle", "inner"} /\ t[1] = a /\ t[2] < b
    \/ pc = "inner" /\ t[1] = a /\ t[2] = b /\ t[3] < c

Count(s, n) == Cardinality({k \in DOMAIN s : s[k] = n})

Range(s) == {s[k] : k \in DOMAIN s}

RECURSIVE SumOfSet(_)
SumOfSet(S) == IF S = {} THEN 0
               ELSE LET x == CHOOSE x \in S : TRUE IN x + SumOfSet(S \ {x})

\* How far past the break the inner loop's candidates are looked at.
Look == 8

\* The squares tried against the residue table: k in [0, KMax).
KMax == 10000

AttainedResidues == {(k * k) % MODULUS : k \in 0..(KMax - 1)}

----------------------------------------------------------------------------
(* Claims *)

\* C1: the search with Bound = 100,000 ends with a solution set whose
\* elements sum to exactly 124657.
C1_SumIs124657 == pc = "done" => total = 124657

C1_Witness == pc = "done" /\ Bound = 100000 /\ Len(sols) = 4 /\ total > 0

\* C2: when the enumeration has completed, every perfect square n with
\* 0 < n < Bound that is progressive (n = d*q + r, 0 < r < d <= q,
\* d*d = r*q) is a member of the solution set.
C2_Complete ==
    pc \in {"output", "done"} => \A n \in ProgressiveSquares : Contains(sols, n)

C2_Witness ==
    /\ pc = "output"
    /\ \E n \in ProgressiveSquares : n > (ALimit \div 2) * (ALimit \div 2) * (ALimit \div 2)

\* C3: for every n with 0 <= n < Bound, is_perfect_square(n) returns true
\* exactly when n is the square of an integer, and a square is never
\* rejected by the residue table.
C3_Classifier ==
    /\ pc = "returned" => (ret <=> cand \in PerfectSquares \cup {0})
    /\ cand \in PerfectSquares \cup {0} => (cand % MODULUS) \in quadratic_residues

C3_Witness == pc = "returned" /\ ret = TRUE /\ cand > MODULUS * MODULUS

\* C4: for the triple of every call of compute_candidate (a > b >= 1,
\* c >= 1), n = d*q + r with r = c b^2, d = c a b, q = c a^2, r < d <= q and
\* d*d = r*q; q and r are the quotient and remainder of n by d.
C4_Decomposition ==
    pc = "inner" =>
        LET n == compute_candidate(a, b, c)
            r == c * b * b
            d == c * a * b
            q == c * a * a
        IN /\ a > b /\ b >= 1 /\ c >= 1
           /\ n = d * q + r
           /\ r < d /\ d <= q
           /\ d * d = r * q
           /\ n \div d = q /\ n % d = r

C4_Witness == pc = "inner" /\ b > 1 /\ c > 1 /\ compute_candidate(a, b, c) < Bound

\* C5: in every reachable state every member of the solution set is below
\* Bound, is a perfect square, and equals c^2 a^3 b + c b^2 for some
\* positive a, b, c with b < a.
C5_Members ==
    \A k \in DOMAIN sols :
        /\ sols[k] < Bound
        /\ sols[k] \in PerfectSquares
        /\ HasTriple(sols[k])

C5_Witness == pc = "inner" /\ Len(sols) >= 2

\* C6: once built, the residue table has bit r set if and only if some
\* k in [0, KMax) has k*k mod MODULUS = r.
C6_Table ==
    pc # "static_init" =>
        /\ quadratic_residues = AttainedResidues
        /\ quadratic_residues = quadratic_residues_value

C6_Witness ==
    /\ pc = "outer" /\ a = 1
    /\ quadratic_residues # {}
    /\ quadratic_residues # 0..(MODULUS - 1)

\* C7 as stated: a value produced by several distinct triples of the search
\* so far has exactly one entry in the solution set.
C7_AsStated ==
    \A p \in RepeatedPairs : Visited(p[2]) => Count(sols, TripleValue(p[2])) = 1

\* C7, amended: a value produced by several distinct triples of the search
\* so far has exactly one entry in the solution set when it is a perfect
\* square and none when it is not, and every entry contributes once to the
\* final sum.
C7_OneEntry ==
    /\ \A p \in RepeatedPairs :
           Visited(p[2]) =>
               Count(sols, TripleValue(p[2])) =
                   IF TripleValue(p[2]) \in PerfectSquares THEN 1 ELSE 0
    /\ pc = "done" => total = SumOfSet(Range(sols))

C7_Witness ==
    /\ pc = "done"
    /\ \E p \in RepeatedPairs : Count(sols, TripleValue(p[2])) = 1

\* C8: for the (a, b) of every inner loop, compute_candidate is strictly
\* increasing in c, and past the c at which the loop breaks no candidate is
\* below Bound.
C8_Monotone ==
    pc = "inner" =>
        /\ compute_candidate(a, b, c) < compute_candidate(a, b, c + 1)
        /\ compute_candidate(a, b, c) >= Bound =>
               \A z \in (c + 1)..(c + Look) : compute_candidate(a, b, z) >= Bound

C8_Witness == pc = "inner" /\ c > 2 /\ compute_candidate(a, b, c) >= Bound

\* C9: every inner loop reaches its break (before c meets the cap MaxC of
\* the model), and the program reaches the output phase and ends.
C9_Terminates ==
    /\ [](pc = "inner" => c <= MaxC)
    /\ (pc = "inner") ~> (pc = "middle")
    /\ <>(pc = "output")
    /\ <>(pc = "done")

C9_Witness == pc = "done" /\ a = ALimit /\ c > 0

\* C10: at Bound = 10^12, for every triple on which main calls
\* compute_candidate, the result and every intermediate product of its
\* left-to-right evaluation are within the signed 64-bit range.
C10_NoOverflow ==
    /\ pc # "undefined"
    /\ pc = "inner" => compute_candidate_i64(a, b, c).in_range

C10_Witness ==
    /\ pc = "break"
    /\ a = ALimitFull - 1 /\ b = a - 1 /\ c = 1
    /\ Len(cand) > Len(BoundFull)

====
